---------------------------- MODULE Spec2Model ----------------------------
(***************************************************************************)
(* PyCO2SYS.uncertainty: forward finite-difference derivatives of the      *)
(* CO2SYS results (forward) and their propagation into uncertainties       *)
(* (propagate), modelled from src/PyCO2SYS/uncertainty.py.                 *)
(*                                                                         *)
(* Numbers are exact rationals <<n, d>> (d > 0, lowest terms; d = 0 stands *)
(* for the inf/nan of a division by zero).  An array is a sequence of      *)
(* NSamples rationals; a numpy scalar is a rational.  Names are strings,   *)
(* and the string operations of the code (startswith, slicing, replace,    *)
(* format) are computed on them.                                           *)
(***************************************************************************)
EXTENDS Integers, Sequences, FiniteSets, TLC

VARIABLES
    op,              \* the operation called: "forward" or "propagate"
    co2dict,         \* argument co2dict: the baseline result mapping
    grads_of,        \* argument grads_of / uncertainties_into, as passed
    grads_wrt,       \* argument grads_wrt / keys of uncertainties_from, as passed
    totals,          \* argument totals (caller's mapping or None)
    equilibria_in,   \* argument equilibria_in (caller's mapping or None)
    equilibria_out,  \* argument equilibria_out (caller's mapping or None)
    dx,              \* argument dx
    dx_scaling,      \* argument dx_scaling
    magnitudes,      \* values of uncertainties_from (propagate only)
    pc,              \* position of the call
    ofList,          \* grads_of after normalisation
    wrtList,         \* grads_wrt after normalisation
    idx,             \* position of the loop `for wrt in grads_wrt`
    co2args,         \* local dict co2args
    co2kwargs,       \* local dict co2kwargs
    dx_wrt,          \* local variable dx_wrt (unbound until first assigned)
    co2derivs,       \* local dict co2derivs
    dxs,             \* local dict dxs
    calls,           \* the invocations of engine._CO2SYS made so far
    err,             \* the exception the call ended with, if any
    components,      \* propagate's components
    uncertainties,   \* propagate's uncertainties
    CO2SYS_nd_kwargs,\* forward_nd: the keyword arguments **CO2SYS_nd_kwargs
    drift,           \* what the solver's results have moved by since the
                     \* baseline (0 for a solver that is deterministic)
    first            \* what an earlier call with these arguments ended with

vars == <<op, co2dict, grads_of, grads_wrt, totals, equilibria_in,
          equilibria_out, dx, dx_scaling, magnitudes, pc, ofList, wrtList,
          idx, co2args, co2kwargs, dx_wrt, co2derivs, dxs, calls, err,
          components, uncertainties, CO2SYS_nd_kwargs, drift, first>>

-----------------------------------------------------------------------------
(* Bounds of the model *)

\* number of sample points of every array
NSamples == 2
\* dx ranges over -1 .. MaxDx
MaxDx == 2
\* a list passed as grads_wrt has at most MaxWrt entries
MaxWrt == 2
\* the solver's results move by at most MaxDrift in a call
MaxDrift == 1

-----------------------------------------------------------------------------
(* Exact rational arithmetic *)

RECURSIVE GCD(_, _)
GCD(a, b) == IF b = 0 THEN a ELSE GCD(b, a % b)

IAbs(n) == IF n < 0 THEN -n ELSE n

\* the rational n/d in lowest terms; <<n, 0>> is kept as it is (inf/nan)
Rat(n, d) ==
    IF d = 0 THEN <<n, 0>>
    ELSE LET g == GCD(IAbs(n), IAbs(d))
             s == IF d < 0 THEN -1 ELSE 1
         IN  <<s * (n \div g), s * (d \div g)>>

RInt(n) == <<n, 1>>
\* a + b over the least common denominator (an inf/nan operand gives inf/nan)
RAdd(a, b) ==
    IF a[2] = 0 \/ b[2] = 0 THEN <<1, 0>>
    ELSE IF a[2] = 1 /\ b[2] = 1 THEN <<a[1] + b[1], 1>>
    ELSE LET g == GCD(a[2], b[2])
         IN  Rat(a[1] * (b[2] \div g) + b[1] * (a[2] \div g),
                 (a[2] \div g) * b[2])
RNeg(a) == <<-a[1], a[2]>>
RSub(a, b) == RAdd(a, RNeg(b))
RMul(a, b) ==
    IF a[2] = 1 /\ b[2] = 1 THEN <<a[1] * b[1], 1>>
    ELSE Rat(a[1] * b[1], a[2] * b[2])
RDiv(a, b) == Rat(a[1] * b[2], a[2] * b[1])
RAbs(a) == <<IAbs(a[1]), a[2]>>
\* a < b and a <= b, over the least common denominator
RLt(a, b) ==
    LET g == IF a[2] = 0 \/ b[2] = 0 THEN 1 ELSE GCD(a[2], b[2])
    IN  a[1] * (b[2] \div g) < b[1] * (a[2] \div g)
RLeq(a, b) ==
    LET g == IF a[2] = 0 \/ b[2] = 0 THEN 1 ELSE GCD(a[2], b[2])
    IN  a[1] * (b[2] \div g) <= b[1] * (a[2] \div g)
RIsZero(a) == a[1] = 0 /\ a[2] # 0
RFinite(a) == a[2] # 0

RECURSIVE IPow10(_)
IPow10(e) == IF e = 0 THEN 1 ELSE 10 * IPow10(e - 1)

\* 10.0 ** e for an integer e
Pow10(e) == IF e >= 0 THEN <<IPow10(e), 1>> ELSE <<1, IPow10(-e)>>

\* log10(a), defined where a is an integer power of ten (every equilibrium
\* constant of the model); elsewhere the exponent of the power of ten below
LogRange == -8 .. 8
Log10(a) ==
    IF \E e \in LogRange : Pow10(e) = a
    THEN CHOOSE e \in LogRange : Pow10(e) = a
    ELSE CHOOSE e \in LogRange :
            /\ RLeq(Pow10(e), a) \/ e = -8
            /\ \A f \in LogRange : RLeq(Pow10(f), a) => f <= e

Samples == 1 .. NSamples

\* an array: one rational per sample point
Full(v) == [i \in Samples |-> v]
ArrAddScalar(a, s) == [i \in Samples |-> RAdd(a[i], s)]
ArrSub(a, b) == [i \in Samples |-> RSub(a[i], b[i])]
ArrDivScalar(a, s) == [i \in Samples |-> RDiv(a[i], s)]

\* the k-th smallest element of a non-empty sequence of rationals
Kth(v, k) ==
    CHOOSE x \in {v[j] : j \in DOMAIN v} :
        /\ Cardinality({j \in DOMAIN v : RLt(v[j], x)}) < k
        /\ Cardinality({j \in DOMAIN v : RLeq(v[j], x)}) >= k

\* numpy's median of a sequence: the middle element, or the mean of the two
\* middle elements of an even number of them
Median(v) ==
    LET n == Len(v)
    IN  IF n % 2 = 1 THEN Kth(v, (n + 1) \div 2)
        ELSE RDiv(RAdd(Kth(v, n \div 2), Kth(v, n \div 2 + 1)), RInt(2))

-----------------------------------------------------------------------------
(* Strings and lists *)

StartsWith(s, pre) == Len(s) >= Len(pre) /\ SubSeq(s, 1, Len(pre)) = pre
EndsWith(s, suf) ==
    Len(s) >= Len(suf) /\ SubSeq(s, Len(s) - Len(suf) + 1, Len(s)) = suf

\* s.replace(old, ""): every occurrence of old removed, left to right
RECURSIVE Remove(_, _)
Remove(s, old) ==
    IF Len(s) < Len(old) THEN s
    ELSE IF StartsWith(s, old)
         THEN Remove(SubSeq(s, Len(old) + 1, Len(s)), old)
         ELSE SubSeq(s, 1, 1) \o Remove(SubSeq(s, 2, Len(s)), old)

In(x, l) == \E i \in DOMAIN l : l[i] = x
Pos(l, x) == CHOOSE i \in DOMAIN l : l[i] = x
MapSeq(l, F(_)) == [i \in DOMAIN l |-> F(l[i])]
Elems(l) == {l[i] : i \in DOMAIN l}

-----------------------------------------------------------------------------
(* The names forward accepts *)

inputs_wrt == <<"PAR1", "PAR2", "SAL", "TEMPIN", "TEMPOUT", "PRESIN",
                "PRESOUT", "SI", "PO4", "NH3", "H2S">>
totals_wrt == <<"TB", "TF", "TSO4", "TCa">>
Ks_wrt == <<"KSO4", "KF", "fH", "KB", "KW", "KP1", "KP2", "KP3", "KSi",
            "K1", "K2", "KH2S", "KNH3", "K0", "FugFac", "KCa", "KAr">>

FormatInput(K) == K \o "input"
FormatOutput(K) == K \o "output"
FormatPInput(K) == "p" \o K \o "input"
FormatPOutput(K) == "p" \o K \o "output"
KStartsWithK(K) == StartsWith(K, "K")

Kis_wrt == MapSeq(Ks_wrt, FormatInput) \o <<"RGas">>
Kos_wrt == MapSeq(Ks_wrt, FormatOutput) \o <<"RGas">>
pKis_wrt == MapSeq(SelectSeq(Ks_wrt, KStartsWithK), FormatPInput)
pKos_wrt == MapSeq(SelectSeq(Ks_wrt, KStartsWithK), FormatPOutput)
groups_wrt == <<"all", "measurements", "totals", "equilibria_in",
                "equilibria_out">>
all_wrt == inputs_wrt \o totals_wrt \o Kis_wrt \o Kos_wrt \o pKis_wrt
           \o pKos_wrt

\* engine.gradables: the results a derivative can be taken of
gradables == <<"CO2out", "OmegaARin">>

\* the arguments of engine._CO2SYS that forward reads from co2dict
co2args_names == <<"PAR1", "PAR2", "PAR1TYPE", "PAR2TYPE", "SAL", "TEMPIN",
                   "TEMPOUT", "PRESIN", "PRESOUT", "SI", "PO4", "NH3", "H2S",
                   "pHSCALEIN", "K1K2CONSTANTS", "KSO4CONSTANT", "KFCONSTANT",
                   "BORON", "buffers_mode", "WhichR">>

-----------------------------------------------------------------------------
(* Python values *)

\* None, and a dict held where None may be held
None == [isNone |-> TRUE, d |-> <<>>]
Dict(f) == [isNone |-> FALSE, d |-> f]
\* d.update({k: v})
Update(f, k, v) == [x \in DOMAIN f \cup {k} |-> IF x = k THEN v ELSE f[x]]

NoError == [class |-> "", msg |-> ""]
AssertionError(m) == [class |-> "AssertionError", msg |-> m]
UnboundLocalError ==
    [class |-> "UnboundLocalError",
     msg |-> "local variable 'dx_wrt' referenced before assignment"]
KeyError == [class |-> "KeyError", msg |-> ""]
SolverError == [class |-> "SolverError", msg |-> ""]

Unbound == [bound |-> FALSE, v |-> <<0, 1>>]
Bound(v) == [bound |-> TRUE, v |-> v]

-----------------------------------------------------------------------------
(* engine._CO2SYS, a deterministic stub of the solver.  Every result is a   *)
(* weighted sum of the numeric arguments and of the totals and equilibrium  *)
(* constants in effect (the caller's override where one is given, the       *)
(* solver's own value otherwise), plus a square of SAL, so that the stub is *)
(* linear in every argument but SAL.                                        *)

\* the value the solver itself computes for a total or constant
InternalValue(group, stem) ==
    IF group = "totals" THEN Full(RInt(2 + Pos(totals_wrt, stem)))
    ELSE IF stem = "RGas" THEN Full(RInt(8))
    ELSE IF StartsWith(stem, "K")
         THEN Full(Pow10((Pos(Ks_wrt, stem)
                          + (IF group = "equilibria_in" THEN 0 ELSE 1)) % 2))
         ELSE Full(RInt(3))

StubStems == Ks_wrt \o <<"RGas">>
Internal ==
    [group \in {"totals", "equilibria_in", "equilibria_out"} |->
        [stem \in (IF group = "totals" THEN Elems(totals_wrt)
                   ELSE Elems(StubStems)) |-> InternalValue(group, stem)]]

\* the total or constant in effect
Eff(kw, group, stem) ==
    IF ~kw[group].isNone /\ stem \in DOMAIN kw[group].d
    THEN kw[group].d[stem]
    ELSE Internal[group][stem]

\* the terms of a result: the arguments, then the totals, then the constants
\* at input and at output conditions
StubTerms ==
    [k \in DOMAIN inputs_wrt |-> [group |-> "", name |-> inputs_wrt[k]]]
    \o [k \in DOMAIN totals_wrt |-> [group |-> "totals", name |-> totals_wrt[k]]]
    \o [k \in DOMAIN StubStems |->
          [group |-> "equilibria_in", name |-> StubStems[k]]]
    \o [k \in DOMAIN StubStems |->
          [group |-> "equilibria_out", name |-> StubStems[k]]]

\* the coefficient of the k-th term in the result `of`
Coef ==
    [of \in Elems(gradables) |->
        [k \in DOMAIN StubTerms |-> 1 + ((Pos(gradables, of) + k) % 5)]]

\* T(lo) + ... + T(hi)
RECURSIVE SumRange(_, _, _)
SumRange(T(_), lo, hi) ==
    IF lo > hi THEN <<0, 1>>
    ELSE IF lo = hi THEN T(lo)
    ELSE LET mid == (lo + hi) \div 2
         IN  RAdd(SumRange(T, lo, mid), SumRange(T, mid + 1, hi))
SumTo(T(_), n) == SumRange(T, 1, n)

Gradable(args, kw, of, i) ==
    LET T(k) ==
          LET t == StubTerms[k]
          IN  RMul(RInt(Coef[of][k]),
                   IF t.group = "" THEN args[t.name][i]
                   ELSE Eff(kw, t.group, t.name)[i])
    IN  RAdd(SumTo(T, Len(StubTerms)), RMul(args["SAL"][i], args["SAL"][i]))

ResultNames ==
    Elems(co2args_names) \cup {"KSO4CONSTANTS"} \cup Elems(totals_wrt)
    \cup Elems(Kis_wrt) \cup Elems(Kos_wrt) \cup Elems(gradables)

\* the entry `name` of the mapping the solver returns
Result(args, kw, name) ==
    IF In(name, co2args_names) THEN args[name]
    ELSE IF name = "KSO4CONSTANTS" THEN kw.KSO4CONSTANTS
    ELSE IF In(name, totals_wrt) THEN Eff(kw, "totals", name)
    ELSE IF In(name, Kis_wrt)
         THEN Eff(kw, "equilibria_in", Remove(name, "input"))
    ELSE IF In(name, Kos_wrt)
         THEN Eff(kw, "equilibria_out", Remove(name, "output"))
    ELSE [i \in Samples |-> Gradable(args, kw, name, i)]

engine_CO2SYS(args, kw) == [name \in ResultNames |-> Result(args, kw, name)]

-----------------------------------------------------------------------------
(* The step size *)

\* dx_func, the caller's function of dx_scaling = "custom": one plus the
\* range of the values it is given (their largest minus their smallest)
dx_func(var) == RAdd(RInt(1), RSub(Kth(var, Len(var)), Kth(var, 1)))

\* _get_dx_wrt(dx, var, dx_scaling, dx_func): var is a sequence of numbers.
\* ok is FALSE where the assertion on dx_scaling fails.
get_dx_wrt(d, var, scaling) ==
    IF scaling \notin {"none", "median", "custom"}
    THEN [ok |-> FALSE, v |-> <<0, 1>>]
    ELSE IF scaling = "none" THEN [ok |-> TRUE, v |-> d]
    ELSE IF scaling = "median"
         THEN LET median_var == Median(var)
              IN  IF RIsZero(median_var) THEN [ok |-> TRUE, v |-> d]
                  ELSE [ok |-> TRUE, v |-> RMul(d, RAbs(median_var))]
    ELSE [ok |-> TRUE, v |-> dx_func(var)]

\* -np.log10(values) and 10.0 ** -values, elementwise
NegLog10(a) == [i \in DOMAIN a |-> RInt(-Log10(a[i]))]
TenToMinus(a) == [i \in DOMAIN a |-> Pow10(-(a[i][1] \div a[i][2]))]

\* _overridekwargs(co2dict, co2kwargs_plus, kwarg, wrt, dx, dx_scaling,
\* dx_func): the dict co2kwargs_plus after the call and the step dx_wrt
overridekwargs(dict, kwargs_plus, kwarg, wrt0, d, scaling) ==
    LET ispK == StartsWith(wrt0, "pK")
        wrt  == IF ispK THEN SubSeq(wrt0, 2, Len(wrt0)) ELSE wrt0
        wrt_stem == IF kwarg = "equilibria_in" THEN Remove(wrt, "input")
                    ELSE IF kwarg = "equilibria_out" THEN Remove(wrt, "output")
                    ELSE wrt
        \* if there isn't yet a dict, create one
        g1 == IF kwargs_plus[kwarg].isNone
              THEN Dict(Update(<<>>, wrt_stem, dict[wrt]))
              ELSE kwargs_plus[kwarg]
        \* if there is a dict, add the field if it's not already there
        g2 == IF wrt \notin DOMAIN g1.d
              THEN Dict(Update(g1.d, wrt_stem, dict[wrt]))
              ELSE g1
        pKvalues == NegLog10(g2.d[wrt_stem])
        Kvalues == g2.d[wrt_stem]
        r == get_dx_wrt(d, IF ispK THEN pKvalues ELSE Kvalues, scaling)
        new == IF ispK THEN TenToMinus(ArrAddScalar(pKvalues, r.v))
               ELSE ArrAddScalar(Kvalues, r.v)
    IN  [ok |-> r.ok,
         kw |-> [kwargs_plus EXCEPT ![kwarg] = Dict(Update(g2.d, wrt_stem, new))],
         dx_wrt |-> r.v]

-----------------------------------------------------------------------------
(* forward: the checks of its arguments *)

Str(x) == [isstr |-> TRUE, s |-> x, l |-> <<>>]
List(x) == [isstr |-> FALSE, s |-> "", l |-> x]

\* np.all(np.isin(names, allowed))
\* np.any in the place of np.all
AnyIsIn(names, allowed) == \E i \in DOMAIN names : In(names[i], allowed)

AllIsIn(names, allowed) == \A i \in DOMAIN names : In(names[i], allowed)

\* grads_wrt as a list: a single name or a group keyword is checked and
\* expanded, then every name of the list is checked
NormaliseWrt(g) ==
    IF g.isstr /\ ~In(g.s, all_wrt \o groups_wrt)
    THEN [ok |-> FALSE, err |-> AssertionError(""), l |-> <<>>]
    ELSE LET l == IF ~g.isstr THEN g.l
                  ELSE IF g.s = "all" THEN all_wrt
                  ELSE IF g.s = "measurements" THEN inputs_wrt
                  ELSE IF g.s = "totals" THEN totals_wrt
                  ELSE IF g.s = "equilibria_in" THEN Kis_wrt
                  ELSE IF g.s = "equilibria_out" THEN Kos_wrt
                  ELSE <<g.s>>
         IN  IF AllIsIn(l, all_wrt)
             THEN [ok |-> TRUE, err |-> NoError, l |-> l]
             ELSE [ok |-> FALSE,
                   err |-> AssertionError("Invalid grads_wrt requested."),
                   l |-> <<>>]

\* grads_of as a list, likewise
NormaliseOf(g) ==
    IF g.isstr /\ ~In(g.s, <<"all">> \o gradables)
    THEN [ok |-> FALSE, err |-> AssertionError(""), l |-> <<>>]
    ELSE LET l == IF ~g.isstr THEN g.l
                  ELSE IF g.s = "all" THEN gradables
                  ELSE <<g.s>>
         IN  IF AllIsIn(l, gradables)
             THEN [ok |-> TRUE, err |-> NoError, l |-> l]
             ELSE [ok |-> FALSE,
                   err |-> AssertionError("Invalid grads_of requested."),
                   l |-> <<>>]

\* assert dx >= 0
DxIsNotNegative(d) == d >= 0

\* assert dx > 0
DxIsPositive(d) == d > 0

\* the checks in the order of the code; the first that fails ends the call
CheckArguments(gof, gwrt, d) ==
    LET w == NormaliseWrt(gwrt)
        o == NormaliseOf(gof)
    IN  IF ~w.ok THEN [ok |-> FALSE, err |-> w.err, of |-> <<>>, wrt |-> <<>>]
        ELSE IF ~o.ok
             THEN [ok |-> FALSE, err |-> o.err, of |-> <<>>, wrt |-> <<>>]
        ELSE IF ~DxIsPositive(d)
             THEN [ok |-> FALSE, err |-> AssertionError("dx must be positive."),
                   of |-> <<>>, wrt |-> <<>>]
        ELSE [ok |-> TRUE, err |-> NoError, of |-> o.l, wrt |-> w.l]

NoValue == [isNone |-> TRUE, v |-> <<>>]
Value(v) == [isNone |-> FALSE, v |-> v]

\* forward up to its loop: the arguments are checked, co2args and co2kwargs
\* are assembled from co2dict and the caller's mappings, and co2derivs and
\* dxs are preallocated
Validate ==
    /\ pc = "start"
    /\ LET c == CheckArguments(grads_of, grads_wrt, dx)
       IN  IF ~c.ok
           THEN /\ pc' = "failed"
                /\ err' = c.err
                /\ UNCHANGED <<ofList, wrtList, co2args, co2kwargs, co2derivs,
                               dxs>>
           ELSE /\ pc' = "loop"
                /\ err' = NoError
                /\ ofList' = c.of
                /\ wrtList' = c.wrt
                /\ co2args' = [arg \in Elems(co2args_names) |-> co2dict[arg]]
                /\ co2kwargs' = [KSO4CONSTANTS |-> co2dict["KSO4CONSTANTS"],
                                 totals |-> totals,
                                 equilibria_in |-> equilibria_in,
                                 equilibria_out |-> equilibria_out]
                /\ co2derivs' = [of \in Elems(c.of) |->
                                    [wrt \in Elems(c.wrt) |-> NoValue]]
                /\ dxs' = [wrt \in Elems(c.wrt) |-> NoValue]
    /\ UNCHANGED <<CO2SYS_nd_kwargs, drift, first>>
    /\ UNCHANGED <<op, co2dict, grads_of, grads_wrt, totals, equilibria_in,
                   equilibria_out, dx, dx_scaling, magnitudes, idx, dx_wrt,
                   calls, components, uncertainties>>

-----------------------------------------------------------------------------
(* forward: one pass of the loop `for wrt in grads_wrt` *)

\* what a dict holds after a pass that worked on the dict itself
no_copy(original, written) == written

\* what a dict holds after a pass that worked on copy.deepcopy of it: the
\* pass writes to the copy alone
copy_deepcopy(original, written) == original

\* the perturbation of the arguments for wrt: the branch of wrt is taken;
\* where no branch is, the arguments and dx_wrt stay as they were
Perturb(wrt, args_plus, kwargs_plus, prev) ==
    IF In(wrt, inputs_wrt)
    THEN LET r == get_dx_wrt(RInt(dx), <<Median(args_plus[wrt])>>, dx_scaling)
         IN  [ok |-> r.ok,
              args |-> [args_plus EXCEPT ![wrt] = ArrAddScalar(@, r.v)],
              kw |-> kwargs_plus,
              dx_wrt |-> Bound(r.v)]
    ELSE LET kwarg == IF In(wrt, totals_wrt) THEN "totals"
                      ELSE IF In(wrt, Kis_wrt) THEN "equilibria_in"
                      ELSE IF In(wrt, pKis_wrt) THEN "equilibria_in"
                      ELSE IF In(wrt, Kos_wrt) THEN "equilibria_out"
                      ELSE ""
         IN  IF kwarg = ""
             THEN [ok |-> TRUE, args |-> args_plus, kw |-> kwargs_plus,
                   dx_wrt |-> prev]
             ELSE LET r == overridekwargs(co2dict, kwargs_plus, kwarg, wrt,
                                          RInt(dx), dx_scaling)
                  IN  [ok |-> r.ok, args |-> args_plus, kw |-> r.kw,
                       dx_wrt |-> Bound(r.dx_wrt)]

\* (co2dict_plus[of] - co2dict[of]) / dx_wrt
Derivative(plus, base, step) == ArrDivScalar(ArrSub(plus, base), step)

\* the invocation engine._CO2SYS(**co2args_plus, **co2kwargs_plus), and what
\* the solver's results had moved by when it was made
Invocation(wrt, p) ==
    [wrt |-> wrt, args |-> p.args, kwargs |-> p.kw, drift |-> drift]

\* co2derivs[of][wrt] = new, whatever the entry holds
Overwrite(old, new) == Value(new)

\* if co2derivs[of][wrt] is None: co2derivs[of][wrt] = new
Store(old, new) == IF old.isNone THEN Value(new) ELSE old

\* the dicts and the caller's mappings after a pass: co2kwargs holds the
\* caller's mappings themselves, not copies of them
Frame(p) ==
    LET kept == copy_deepcopy(co2kwargs, p.kw)
    IN  /\ co2args' = copy_deepcopy(co2args, p.args)
        /\ co2kwargs' = kept
        /\ totals' = IF totals.isNone THEN totals ELSE kept.totals
        /\ equilibria_in' =
              IF equilibria_in.isNone THEN equilibria_in ELSE kept.equilibria_in
        /\ equilibria_out' =
              IF equilibria_out.isNone THEN equilibria_out
              ELSE kept.equilibria_out

\* one pass in which the solver returns
Iterate ==
    /\ pc = "loop"
    /\ idx <= Len(wrtList)
    /\ LET wrt == wrtList[idx]
           p == Perturb(wrt, co2args, co2kwargs, dx_wrt)
       IN  /\ Frame(p)
           /\ IF ~p.ok
              THEN \* _get_dx_wrt's assertion fails before the invocation
                   /\ pc' = "failed"
                   /\ err' = AssertionError("dx_scaling must be 'none' or 'median'.")
                   /\ UNCHANGED <<calls, dx_wrt, dxs, co2derivs, idx>>
              ELSE /\ calls' = Append(calls, Invocation(wrt, p))
                   /\ dx_wrt' = p.dx_wrt
                   /\ IF ~p.dx_wrt.bound
                      THEN \* dxs[wrt] = dx_wrt reads a name never assigned
                           /\ pc' = "failed"
                           /\ err' = UnboundLocalError
                           /\ UNCHANGED <<dxs, co2derivs, idx>>
                      ELSE LET co2dict_plus(of) ==
                                 ArrAddScalar(Result(p.args, p.kw, of),
                                              RInt(drift))
                           IN  /\ dxs' = [dxs EXCEPT ![wrt] = Value(p.dx_wrt.v)]
                               /\ co2derivs' =
                                    [of \in DOMAIN co2derivs |->
                                       [co2derivs[of] EXCEPT ![wrt] =
                                          Store(@, Derivative(co2dict_plus(of),
                                                              co2dict[of],
                                                              p.dx_wrt.v))]]
                               /\ idx' = idx + 1
                               /\ UNCHANGED <<pc, err>>
    /\ UNCHANGED <<CO2SYS_nd_kwargs, drift, first>>
    /\ UNCHANGED <<op, co2dict, grads_of, grads_wrt, dx, dx_scaling,
                   magnitudes, ofList, wrtList, components, uncertainties>>

\* one pass in which the solver raises and the exception is caught: the loop
\* goes on to the next target
SolverFailsAndLoopGoesOn ==
    /\ pc = "loop"
    /\ idx <= Len(wrtList)
    /\ LET wrt == wrtList[idx]
           p == Perturb(wrt, co2args, co2kwargs, dx_wrt)
       IN  /\ p.ok
           /\ Frame(p)
           /\ calls' = Append(calls, Invocation(wrt, p))
           /\ dx_wrt' = p.dx_wrt
    /\ idx' = idx + 1
    /\ UNCHANGED <<CO2SYS_nd_kwargs, drift, first>>
    /\ UNCHANGED <<op, co2dict, grads_of, grads_wrt, dx, dx_scaling,
                   magnitudes, ofList, wrtList, pc, err, dxs, co2derivs,
                   components, uncertainties>>

\* one pass in which the solver raises: the exception ends the call
SolverFails ==
    /\ pc = "loop"
    /\ idx <= Len(wrtList)
    /\ LET wrt == wrtList[idx]
           p == Perturb(wrt, co2args, co2kwargs, dx_wrt)
       IN  /\ p.ok
           /\ Frame(p)
           /\ calls' = Append(calls, Invocation(wrt, p))
           /\ dx_wrt' = p.dx_wrt
    /\ pc' = "failed"
    /\ err' = SolverError
    /\ UNCHANGED <<CO2SYS_nd_kwargs, drift, first>>
    /\ UNCHANGED <<op, co2dict, grads_of, grads_wrt, dx, dx_scaling,
                   magnitudes, ofList, wrtList, idx, dxs, co2derivs,
                   components, uncertainties>>

\* return co2derivs, dxs
ForwardReturn ==
    /\ pc = "loop"
    /\ idx > Len(wrtList)
    /\ op = "forward"
    /\ pc' = "returned"
    /\ UNCHANGED <<CO2SYS_nd_kwargs, drift, first>>
    /\ UNCHANGED <<op, co2dict, grads_of, grads_wrt, totals, equilibria_in,
                   equilibria_out, dx, dx_scaling, magnitudes, ofList, wrtList,
                   idx, co2args, co2kwargs, dx_wrt, co2derivs, dxs, calls, err,
                   components, uncertainties>>

-----------------------------------------------------------------------------
(* propagate: the uncertainties from the derivatives *)

\* np.sqrt(x): the number that is not negative and whose square is x
np_sqrt(x) == [sq |-> x]
SqrtEquals(u, c) == RLeq(<<0, 1>>, c) /\ u.sq = RMul(c, c)
SqrtAtLeast(u, c) == RLt(c, <<0, 1>>) \/ RLeq(RMul(c, c), u.sq)

\* a value of uncertainties_from: a scalar or an array
Scalar(v) == [scalar |-> TRUE, v |-> v, a |-> <<>>]
Array(a) == [scalar |-> FALSE, v |-> <<0, 1>>, a |-> a]
\* engine.condition: every value as an array of npts elements
engine_condition(m) == IF m.scalar THEN Full(m.v) ELSE m.a

\* iterating over a str gives its characters
Characters(x) == [i \in 1 .. Len(x) |-> SubSeq(x, i, i)]
Iterated(g) == IF g.isstr THEN Characters(g.s) ELSE g.l

\* derivative * v_from
SignedComponent(derivative, v_from) ==
    [i \in Samples |-> RMul(derivative[i], v_from[i])]

\* np.abs(derivative) * v_from
Component(derivative, v_from) ==
    [i \in Samples |-> RMul(RAbs(derivative[i]), v_from[i])]

\* np.sqrt(np.sum(np.array(components), axis=0))
RootSum(cs) ==
    [i \in Samples |->
        LET T(k) == cs[k][i] IN np_sqrt(SumTo(T, Len(cs)))]
\* np.sqrt(np.mean(np.array(components) ** 2, axis=0))
RootMeanSquares(cs) ==
    [i \in Samples |->
        LET T(k) == RMul(cs[k][i], cs[k][i])
        IN  np_sqrt(RDiv(SumTo(T, Len(cs)), RInt(Len(cs))))]

\* np.sqrt(np.sum(np.array(components) ** 2, axis=0)), components a sequence
\* of arrays
RootSumSquares(cs) ==
    [i \in Samples |->
        LET T(k) == RMul(cs[k][i], cs[k][i]) IN np_sqrt(SumTo(T, Len(cs)))]

\* the dict keys in the order of insertion, each once
RECURSIVE Keys(_)
Keys(l) ==
    IF l = <<>> THEN <<>>
    ELSE LET front == Keys(SubSeq(l, 1, Len(l) - 1))
             last == l[Len(l)]
         IN  IF In(last, front) THEN front ELSE Append(front, last)

\* propagate after forward has returned co2derivs
Propagate ==
    /\ pc = "loop"
    /\ idx > Len(wrtList)
    /\ op = "propagate"
    /\ LET into == Iterated(grads_of)
           from == Keys(wrtList)
           v_from == [s \in DOMAIN magnitudes |-> engine_condition(magnitudes[s])]
       IN  \* co2derivs[u_into] is looked up once for every source
           IF from # <<>> /\ \E k \in DOMAIN into : into[k] \notin DOMAIN co2derivs
           THEN /\ pc' = "failed"
                /\ err' = KeyError
                /\ UNCHANGED <<components, uncertainties>>
           ELSE LET comps == [u_into \in Elems(into) |->
                                [u_from \in Elems(from) |->
                                   Component(co2derivs[u_into][u_from].v,
                                             v_from[u_from])]]
                IN  /\ components' = comps
                    /\ uncertainties' =
                         [u_into \in Elems(into) |->
                            RootSumSquares([k \in DOMAIN from |->
                                              comps[u_into][from[k]]])]
                    /\ pc' = "returned"
                    /\ UNCHANGED err
    /\ UNCHANGED <<CO2SYS_nd_kwargs, drift, first>>
    /\ UNCHANGED <<op, co2dict, grads_of, grads_wrt, totals, equilibria_in,
                   equilibria_out, dx, dx_scaling, magnitudes, ofList, wrtList,
                   idx, co2args, co2kwargs, dx_wrt, co2derivs, dxs, calls>>

-----------------------------------------------------------------------------
(* The calls of the model *)

\* sequences of at most n elements of S
RECURSIVE SeqsUpTo(_, _)
SeqsUpTo(S, n) ==
    IF n = 0 THEN {<<>>}
    ELSE LET shorter == SeqsUpTo(S, n - 1)
         IN  shorter \cup {Append(q, x) : q \in shorter, x \in S}

Distinct(l) == \A i, j \in DOMAIN l : l[i] = l[j] => i = j

WrtPool == {"PAR1", "TB", "pK1input", "pK1output", "bogus"}
WrtStrings ==
    WrtPool \cup Elems(groups_wrt) \cup {"K1input", "K1output", "RGas", "CO2out"}
WrtRequests ==
    {Str(x) : x \in WrtStrings} \cup {List(l) : l \in SeqsUpTo(WrtPool, MaxWrt)}

OfRequests ==
    {Str("CO2out"), Str("all"), Str("bogus"),
     List(<<"CO2out", "OmegaARin">>), List(<<"OmegaARin", "bogus">>)}

ScalingValues == {"none", "median", "custom", "mean"}
DxValues == -1 .. MaxDx

\* the measurements of the baseline: all zero, rising, or negative and falling
Measurement(b, k) ==
    [i \in Samples |->
        IF b = "zero" THEN RInt(0)
        ELSE IF b = "rising" THEN RInt(i + k - 1)
        ELSE RInt(-2 * i - k + 1)]
BaselineArgs(b) ==
    [arg \in Elems(co2args_names) |->
        IF In(arg, inputs_wrt) THEN Measurement(b, Pos(inputs_wrt, arg))
        ELSE Full(RInt(1))]

\* the calls that produced the baseline: the measurements and the caller's
\* totals, equilibria_in and equilibria_out
Baselines ==
    <<[b |-> "rising",
       totals |-> Dict("TB" :> [i \in Samples |-> RInt(4 + i)]),
       equilibria_in |-> Dict("K1" :> Full(Pow10(1))),
       equilibria_out |-> None],
      [b |-> "zero", totals |-> None, equilibria_in |-> None,
       equilibria_out |-> None],
      [b |-> "falling",
       totals |-> Dict("TF" :> Full(RInt(6))),
       equilibria_in |-> Dict(("K2" :> Full(Pow10(1))) @@ ("KW" :> Full(Pow10(0)))),
       equilibria_out |-> Dict("K1" :> Full(Pow10(0)))]>>

\* co2dict: the result of the solver for the baseline
BaselineResult ==
    [n \in DOMAIN Baselines |->
        engine_CO2SYS(BaselineArgs(Baselines[n].b),
                      [KSO4CONSTANTS |-> Full(RInt(1)),
                       totals |-> Baselines[n].totals,
                       equilibria_in |-> Baselines[n].equilibria_in,
                       equilibria_out |-> Baselines[n].equilibria_out])]

\* the values of uncertainties_from, by position in the dict: a scalar, then
\* an array, and so on
Magnitudes(l) ==
    [s \in Elems(l) |->
        IF Pos(l, s) % 2 = 1 THEN Scalar(RInt(Pos(l, s)))
        ELSE Array([i \in Samples |-> RInt(i)])]

\* One call of forward or of propagate, with a baseline that the solver
\* produced from the same measurements and the same caller's mappings.  A
\* group keyword is requested on the first baseline with one of two grads_of.
Call(o) ==
    \E gof \in OfRequests, gwrt \in WrtRequests, n \in DOMAIN Baselines,
       d \in DxValues, sc \in ScalingValues :
        \* uncertainties_from is a dict: its keys are a list of distinct names
        /\ o = "propagate" => ~gwrt.isstr /\ Distinct(gwrt.l)
        /\ gwrt.isstr /\ In(gwrt.s, groups_wrt) =>
              n = 1 /\ gof \in {Str("CO2out"), List(<<"OmegaARin", "bogus">>)}
        /\ op = o
        /\ grads_of = gof
        /\ grads_wrt = gwrt
        /\ totals = Baselines[n].totals
        /\ equilibria_in = Baselines[n].equilibria_in
        /\ equilibria_out = Baselines[n].equilibria_out
        /\ dx = d
        /\ dx_scaling = sc
        /\ magnitudes = IF o = "propagate" THEN Magnitudes(gwrt.l) ELSE <<>>
        /\ co2dict = BaselineResult[n]
        /\ pc = "start"
        /\ ofList = <<>>
        /\ wrtList = <<>>
        /\ idx = 1
        /\ co2args = <<>>
        /\ co2kwargs = <<>>
        /\ dx_wrt = Unbound
        /\ co2derivs = <<>>
        /\ dxs = <<>>
        /\ calls = <<>>
        /\ err = NoError
        /\ components = <<>>
        /\ uncertainties = <<>>
        /\ CO2SYS_nd_kwargs = <<>>
        /\ drift = 0
        /\ first = NoValue

\* a call of forward
Init == Call("forward")

Next ==
    \/ Validate
    \/ Iterate
    \/ SolverFails
    \/ ForwardReturn

Spec == Init /\ [][Next]_vars

\* a call of propagate, which calls forward
InitPropagate == Call("propagate")

NextPropagate ==
    \/ Validate
    \/ Iterate
    \/ SolverFails
    \/ Propagate

SpecPropagate == InitPropagate /\ [][NextPropagate]_vars

-----------------------------------------------------------------------------
(* A second call of forward by the same caller: the caller passes the      *)
(* objects it passed to the first call, as the first call left them.       *)

Reverse(l) == [k \in DOMAIN l |-> l[Len(l) + 1 - k]]

\* what a call ended with
Outcome(permuted) ==
    [pc |-> pc, err |-> err, co2derivs |-> co2derivs, dxs |-> dxs,
     permuted |-> permuted]

\* the locals of forward at the entry of a call
Entry ==
    /\ pc' = "start"
    /\ ofList' = <<>>
    /\ wrtList' = <<>>
    /\ idx' = 1
    /\ co2args' = <<>>
    /\ co2kwargs' = <<>>
    /\ dx_wrt' = Unbound
    /\ co2derivs' = <<>>
    /\ dxs' = <<>>
    /\ calls' = <<>>
    /\ err' = NoError

\* the call has ended and the caller calls forward again with the same
\* arguments
CallAgain ==
    /\ pc \in {"failed", "returned"}
    /\ op = "forward"
    /\ first.isNone
    /\ first' = Value(Outcome(FALSE))
    /\ Entry
    /\ UNCHANGED <<op, co2dict, grads_of, grads_wrt, totals, equilibria_in,
                   equilibria_out, dx, dx_scaling, magnitudes, components,
                   uncertainties, CO2SYS_nd_kwargs, drift>>

\* the call has ended and the caller calls forward again with the list
\* grads_wrt in the reverse order
CallPermuted ==
    /\ pc \in {"failed", "returned"}
    /\ op = "forward"
    /\ first.isNone
    /\ ~grads_wrt.isstr
    /\ Reverse(grads_wrt.l) # grads_wrt.l
    /\ first' = Value(Outcome(TRUE))
    /\ grads_wrt' = List(Reverse(grads_wrt.l))
    /\ Entry
    /\ UNCHANGED <<op, co2dict, grads_of, totals, equilibria_in,
                   equilibria_out, dx, dx_scaling, magnitudes, components,
                   uncertainties, CO2SYS_nd_kwargs, drift>>

\* two calls of forward in a row, with a solver that returns; the first
\* call passes the checks of grads_of and of dx
InitTwice ==
    /\ Call("forward")
    /\ dx > 0
    /\ grads_of \in {Str("CO2out"), List(<<"CO2out", "OmegaARin">>)}

NextTwice ==
    \/ Validate
    \/ Iterate
    \/ ForwardReturn
    \/ CallAgain
    \/ CallPermuted

SpecTwice == InitTwice /\ [][NextTwice]_vars

-----------------------------------------------------------------------------
(* forward with a solver that is not deterministic: between two passes the   *)
(* results of the solver may move.                                          *)

SolverDrifts ==
    /\ pc = "loop"
    /\ idx > 1
    /\ idx <= Len(wrtList)
    /\ drift < MaxDrift
    /\ drift' = drift + 1
    /\ UNCHANGED <<op, co2dict, grads_of, grads_wrt, totals, equilibria_in,
                   equilibria_out, dx, dx_scaling, magnitudes, pc, ofList,
                   wrtList, idx, co2args, co2kwargs, dx_wrt, co2derivs, dxs,
                   calls, err, components, uncertainties, CO2SYS_nd_kwargs,
                   first>>

\* the calls with a list of targets that pass the checks of grads_of and of
\* dx
InitDrift ==
    /\ Call("forward")
    /\ ~grads_wrt.isstr
    /\ dx > 0
    /\ grads_of \in {Str("CO2out"), List(<<"CO2out", "OmegaARin">>)}

NextDrift ==
    \/ Validate
    \/ Iterate
    \/ SolverFails
    \/ SolverDrifts
    \/ ForwardReturn

SpecDrift == InitDrift /\ [][NextDrift]_vars

-----------------------------------------------------------------------------
(* _overridekwargs on its own: co2kwargs_plus is made of the mappings the   *)
(* caller of forward supplied, which need not be the ones co2dict was       *)
(* produced with.  The dict it returns is held in co2kwargs, the step in    *)
(* dx_wrt.                                                                  *)

\* the kwarg forward passes for wrt
kwarg_of(wrt) ==
    IF In(wrt, totals_wrt) THEN "totals"
    ELSE IF In(wrt, Kis_wrt) \/ In(wrt, pKis_wrt) THEN "equilibria_in"
    ELSE "equilibria_out"

OverrideTargets == {"TB", "TF", "K1input", "K2input", "pK1input", "K1output",
                    "RGas"}

InitOverride ==
    \E wrt \in OverrideTargets, n \in DOMAIN Baselines, m \in DOMAIN Baselines,
       d \in 1 .. MaxDx, sc \in ScalingValues :
        /\ op = "_overridekwargs"
        /\ co2dict = BaselineResult[n]
        /\ totals = Baselines[m].totals
        /\ equilibria_in = Baselines[m].equilibria_in
        /\ equilibria_out = Baselines[m].equilibria_out
        /\ grads_wrt = Str(wrt)
        /\ grads_of = List(<<>>)
        /\ dx = d
        /\ dx_scaling = sc
        /\ magnitudes = <<>>
        /\ pc = "start"
        /\ ofList = <<>>
        /\ wrtList = <<wrt>>
        /\ idx = 1
        /\ co2args = <<>>
        /\ co2kwargs = <<>>
        /\ dx_wrt = Unbound
        /\ co2derivs = <<>>
        /\ dxs = <<>>
        /\ calls = <<>>
        /\ err = NoError
        /\ components = <<>>
        /\ uncertainties = <<>>
        /\ CO2SYS_nd_kwargs = <<>>
        /\ drift = 0
        /\ first = NoValue

\* one call of _overridekwargs
Override ==
    /\ pc = "start"
    /\ op = "_overridekwargs"
    /\ LET wrt == grads_wrt.s
           co2kwargs_plus == [KSO4CONSTANTS |-> co2dict["KSO4CONSTANTS"],
                              totals |-> totals,
                              equilibria_in |-> equilibria_in,
                              equilibria_out |-> equilibria_out]
           r == overridekwargs(co2dict, co2kwargs_plus, kwarg_of(wrt), wrt,
                               RInt(dx), dx_scaling)
       IN  IF ~r.ok
           THEN /\ pc' = "failed"
                /\ err' = AssertionError("dx_scaling must be 'none' or 'median'.")
                /\ UNCHANGED <<co2kwargs, dx_wrt>>
           ELSE /\ pc' = "returned"
                /\ co2kwargs' = r.kw
                /\ dx_wrt' = Bound(r.dx_wrt)
                /\ UNCHANGED err
    /\ UNCHANGED <<CO2SYS_nd_kwargs, drift, first>>
    /\ UNCHANGED <<op, co2dict, grads_of, grads_wrt, totals, equilibria_in,
                   equilibria_out, dx, dx_scaling, magnitudes, ofList, wrtList,
                   idx, co2args, co2derivs, dxs, calls, components,
                   uncertainties>>

NextOverride == Override

SpecOverride == InitOverride /\ [][NextOverride]_vars

-----------------------------------------------------------------------------
(* forward_nd.  CO2SYS_nd_results is held in co2dict, args_fixed in co2args  *)
(* and CO2SYS_derivs in co2derivs.                                          *)

\* engine.nd.gradables
nd_gradables == <<"pH", "pH_out", "k_carbonic_1", "k_carbonic_1_out">>

keys_fixed_names ==
    <<"par1", "par2", "par1_type", "par2_type", "salinity", "temperature",
      "pressure", "total_ammonia", "total_phosphate", "total_silicate",
      "total_sulfide", "opt_gas_constant", "opt_k_bisulfate",
      "opt_k_carbonic", "opt_k_fluoride", "opt_pH_scale", "opt_total_borate",
      "buffers_mode">>

IsK(gradable) == StartsWith(gradable, "k_")
IsKNotOut(gradable) == IsK(gradable) /\ ~EndsWith(gradable, "_out")
FormatP(gradable) == "p" \o gradable
FormatBoth(gradable) == gradable \o "_both"
FormatPBoth(gradable) == "p" \o gradable \o "_both"

\* the names forward_nd accepts in grads_of
nd_grads_of_allowed ==
    nd_gradables
    \o [k \in DOMAIN SelectSeq(nd_gradables, IsK) |->
          FormatP(SelectSeq(nd_gradables, IsK)[k])]
    \o [k \in DOMAIN SelectSeq(nd_gradables, IsKNotOut) |->
          FormatBoth(SelectSeq(nd_gradables, IsKNotOut)[k])]
    \o [k \in DOMAIN SelectSeq(nd_gradables, IsKNotOut) |->
          FormatPBoth(SelectSeq(nd_gradables, IsKNotOut)[k])]

\* engine.nd.CO2SYS, a deterministic stub: the arguments as given, the
\* constant k_carbonic_1 (as given, or the solver's own) and pH, linear in
\* par1, par2 and the constant; the same at output conditions where
\* temperature_out is given
nd_Given(args, name, own) == IF name \in DOMAIN args THEN args[name] ELSE own
nd_K(args, name) ==
    nd_Given(args, name,
             IF name = "k_carbonic_1" THEN Full(Pow10(1)) ELSE Full(Pow10(0)))
nd_Result(args, name) ==
    IF name \in {"k_carbonic_1", "k_carbonic_1_out"} THEN nd_K(args, name)
    ELSE IF name = "pH"
         THEN [i \in Samples |->
                 RAdd(RAdd(RMul(RInt(2), args["par1"][i]),
                           RMul(RInt(3), args["par2"][i])),
                      RMul(RInt(5), nd_K(args, "k_carbonic_1")[i]))]
    ELSE IF name = "pH_out"
         THEN [i \in Samples |->
                 RAdd(RAdd(RMul(RInt(3), args["par1"][i]),
                           RMul(RInt(2), args["par2"][i])),
                      RMul(RInt(7), nd_K(args, "k_carbonic_1_out")[i]))]
    ELSE args[name]
nd_ResultNames(args) ==
    (DOMAIN args \cup {"pH", "k_carbonic_1"})
    \cup (IF "temperature_out" \in DOMAIN args
          THEN {"pH_out", "k_carbonic_1_out"} ELSE {})
engine_nd_CO2SYS(args) ==
    [name \in nd_ResultNames(args) |-> nd_Result(args, name)]

\* the checks of grads_of; grads_wrt and dx are not checked
nd_CheckArguments(gof, results) ==
    IF ~AllIsIn(gof, nd_grads_of_allowed)
    THEN AssertionError("PyCO2SYS error: all grads_of must be in the list at PyCO2SYS.engine.nd.gradables.")
    ELSE IF (\E k \in DOMAIN gof : EndsWith(gof[k], "_out"))
            /\ "temperature_out" \notin DOMAIN results
         THEN AssertionError("PyCO2SYS error: you can only get gradients at output conditions if you calculatedresults at output conditions!")
    ELSE NoError

\* forward_nd up to its loop
ValidateNd ==
    /\ pc = "start"
    /\ LET e == nd_CheckArguments(grads_of.l, co2dict)
           keys_fixed == Elems(keys_fixed_names) \cup DOMAIN CO2SYS_nd_kwargs
       IN  IF e # NoError
           THEN /\ pc' = "failed"
                /\ err' = e
                /\ UNCHANGED <<ofList, wrtList, co2args, co2derivs, dxs>>
           ELSE /\ pc' = "loop"
                /\ err' = NoError
                /\ ofList' = grads_of.l
                /\ wrtList' = grads_wrt.l
                /\ co2args' = [k \in keys_fixed \cap DOMAIN co2dict |-> co2dict[k]]
                /\ dxs' = [wrt \in Elems(grads_wrt.l) |-> NoValue]
                /\ co2derivs' = [of \in Elems(grads_of.l) |->
                                    [wrt \in Elems(grads_wrt.l) |-> NoValue]]
    /\ UNCHANGED <<CO2SYS_nd_kwargs, drift, first>>
    /\ UNCHANGED <<op, co2dict, grads_of, grads_wrt, totals, equilibria_in,
                   equilibria_out, dx, dx_scaling, magnitudes, idx, co2kwargs,
                   dx_wrt, calls, components, uncertainties>>

\* the perturbation of args_fixed for wrt.  error is KeyError where a name is
\* looked up in CO2SYS_nd_results that is not there, the assertion of
\* _get_dx_wrt where dx_scaling is not known
nd_Perturb(wrt, args_fixed) ==
    LET is_pk == StartsWith(wrt, "pk_")
        do_both == EndsWith(wrt, "_both")
        unprefixed == IF is_pk THEN SubSeq(wrt, 2, Len(wrt)) ELSE wrt
        wrt_internal == IF do_both
                        THEN SubSeq(unprefixed, 1, Len(unprefixed) - 5)
                        ELSE unprefixed
        wrt_out == wrt_internal \o "_out"
        Failed(e) == [error |-> e, args |-> args_fixed, dx_wrt |-> <<0, 1>>]
    IN  IF wrt_internal \notin DOMAIN co2dict THEN Failed(KeyError)
        ELSE LET values == IF is_pk THEN NegLog10(co2dict[wrt_internal])
                           ELSE co2dict[wrt_internal]
                 r == get_dx_wrt(RInt(dx), values, dx_scaling)
                 Plus(name) ==
                     IF is_pk
                     THEN TenToMinus(ArrAddScalar(NegLog10(co2dict[name]), r.v))
                     ELSE ArrAddScalar(co2dict[name], r.v)
                 one == Update(args_fixed, wrt_internal, Plus(wrt_internal))
             IN  IF ~r.ok
                 THEN Failed(AssertionError("dx_scaling must be 'none' or 'median'."))
                 ELSE IF ~do_both
                      THEN [error |-> NoError, args |-> one, dx_wrt |-> r.v]
                 ELSE IF wrt_out \notin DOMAIN co2dict THEN Failed(KeyError)
                 ELSE [error |-> NoError,
                       args |-> Update(one, wrt_out, Plus(wrt_out)),
                       dx_wrt |-> r.v]

\* one pass of the loop `for wrt in grads_wrt` in which the solver returns
IterateNd ==
    /\ pc = "loop"
    /\ idx <= Len(wrtList)
    /\ LET wrt == wrtList[idx]
           p == nd_Perturb(wrt, co2args)
       IN  IF p.error # NoError
           THEN /\ pc' = "failed"
                /\ err' = p.error
                /\ UNCHANGED <<calls, dxs, co2derivs, idx>>
           ELSE /\ calls' = Append(calls, [wrt |-> wrt, args |-> p.args,
                                           kwargs |-> <<>>])
                /\ dxs' = [dxs EXCEPT ![wrt] = Value(p.dx_wrt)]
                /\ co2derivs' =
                     [of \in DOMAIN co2derivs |->
                        [co2derivs[of] EXCEPT ![wrt] =
                           Value(Derivative(nd_Result(p.args, of), co2dict[of],
                                            p.dx_wrt))]]
                /\ idx' = idx + 1
                /\ UNCHANGED <<pc, err>>
    /\ UNCHANGED <<CO2SYS_nd_kwargs, drift, first>>
    /\ UNCHANGED <<op, co2dict, grads_of, grads_wrt, totals, equilibria_in,
                   equilibria_out, dx, dx_scaling, magnitudes, ofList, wrtList,
                   co2args, co2kwargs, dx_wrt, components, uncertainties>>

\* one pass in which the solver raises
SolverFailsNd ==
    /\ pc = "loop"
    /\ idx <= Len(wrtList)
    /\ LET wrt == wrtList[idx]
           p == nd_Perturb(wrt, co2args)
       IN  /\ p.error = NoError
           /\ calls' = Append(calls, [wrt |-> wrt, args |-> p.args,
                                      kwargs |-> <<>>])
    /\ pc' = "failed"
    /\ err' = SolverError
    /\ UNCHANGED <<CO2SYS_nd_kwargs, drift, first>>
    /\ UNCHANGED <<op, co2dict, grads_of, grads_wrt, totals, equilibria_in,
                   equilibria_out, dx, dx_scaling, magnitudes, ofList, wrtList,
                   idx, co2args, co2kwargs, dx_wrt, dxs, co2derivs, components,
                   uncertainties>>

\* return CO2SYS_derivs, dxs
ReturnNd ==
    /\ pc = "loop"
    /\ idx > Len(wrtList)
    /\ pc' = "returned"
    /\ UNCHANGED <<CO2SYS_nd_kwargs, drift, first>>
    /\ UNCHANGED <<op, co2dict, grads_of, grads_wrt, totals, equilibria_in,
                   equilibria_out, dx, dx_scaling, magnitudes, ofList, wrtList,
                   idx, co2args, co2kwargs, dx_wrt, co2derivs, dxs, calls, err,
                   components, uncertainties>>

\* the calls of forward_nd: results with and without output conditions
nd_WrtPool == {"par1", "k_carbonic_1", "pk_carbonic_1", "k_carbonic_1_both",
               "pk_carbonic_1_both", "bogus"}
nd_OfRequests == {<<"pH">>, <<"pH", "pH_out">>, <<"pH", "bogus">>,
                  <<"k_carbonic_1">>}
nd_Kwargs == {<<>>, [temperature_out |-> Full(RInt(1))]}
nd_Args(kwargs) ==
    [k \in Elems(keys_fixed_names) \cup DOMAIN kwargs |->
        IF k = "par1" THEN [i \in Samples |-> RInt(i)]
        ELSE IF k = "par2" THEN Full(RInt(0))
        ELSE Full(RInt(1))]
nd_Baseline == [kwargs \in nd_Kwargs |-> engine_nd_CO2SYS(nd_Args(kwargs))]

InitNd ==
    \E gof \in nd_OfRequests, gwrt \in SeqsUpTo(nd_WrtPool, MaxWrt),
       kwargs \in nd_Kwargs, d \in DxValues, sc \in ScalingValues :
        /\ op = "forward_nd"
        /\ grads_of = List(gof)
        /\ grads_wrt = List(gwrt)
        /\ CO2SYS_nd_kwargs = kwargs
        /\ co2dict = nd_Baseline[kwargs]
        /\ dx = d
        /\ dx_scaling = sc
        /\ totals = None
        /\ equilibria_in = None
        /\ equilibria_out = None
        /\ magnitudes = <<>>
        /\ pc = "start"
        /\ ofList = <<>>
        /\ wrtList = <<>>
        /\ idx = 1
        /\ co2args = <<>>
        /\ co2kwargs = <<>>
        /\ dx_wrt = Unbound
        /\ co2derivs = <<>>
        /\ dxs = <<>>
        /\ calls = <<>>
        /\ err = NoError
        /\ components = <<>>
        /\ uncertainties = <<>>
        /\ drift = 0
        /\ first = NoValue

NextNd ==
    \/ ValidateNd
    \/ IterateNd
    \/ SolverFailsNd
    \/ ReturnNd

SpecNd == InitNd /\ [][NextNd]_vars

-----------------------------------------------------------------------------
(* Properties *)

Requested(g) == IF g.isstr THEN {g.s} ELSE Elems(g.l)
KnownNames == Elems(gradables) \cup Elems(all_wrt) \cup Elems(groups_wrt)
ValidScaling == dx_scaling \in {"none", "median", "custom"}
NoInvocation == calls = <<>>

\* C1: a call of forward whose grads_of or grads_wrt holds a name that is
\* neither a gradable result, nor a name forward takes derivatives with
\* respect to, nor a group keyword, fails, and the solver has not been
\* invoked when it fails.
C1_UnknownNameFailsBeforeSolver ==
    (Requested(grads_of) \cup Requested(grads_wrt)) \ KnownNames # {}
    => /\ pc \in {"start", "failed"}
       /\ NoInvocation
       /\ pc = "failed" => err.class = "AssertionError"

\* the unknown name is the second of a list whose first name is valid, and
\* everything else about the call is valid
C1_Witness ==
    /\ pc = "failed"
    /\ grads_wrt = List(<<"PAR1", "bogus">>)
    /\ grads_of = Str("CO2out")
    /\ dx > 0
    /\ ValidScaling
    /\ NoInvocation

\* C9: a call of forward with dx <= 0 fails on an assertion, and the solver
\* has not been invoked when it fails, whatever is requested and whatever
\* dx_scaling is; where the requested names are valid the assertion that
\* fails is the one on dx.
C9_NonPositiveDxFailsBeforeSolver ==
    dx <= 0
    => /\ pc \in {"start", "failed"}
       /\ NoInvocation
       /\ pc = "failed" =>
            /\ err.class = "AssertionError"
            /\ NormaliseWrt(grads_wrt).ok /\ NormaliseOf(grads_of).ok
               => err = AssertionError("dx must be positive.")

\* dx is zero, every name is valid and dx_scaling is not a scaling at all
C9_Witness ==
    /\ pc = "failed"
    /\ dx = 0
    /\ grads_wrt = Str("all")
    /\ grads_of = Str("CO2out")
    /\ dx_scaling = "mean"
    /\ err = AssertionError("dx must be positive.")
    /\ NoInvocation

-----------------------------------------------------------------------------
(* What a pass is to do for its target, stated from the baseline *)

Groups == {"totals", "equilibria_in", "equilibria_out"}
IsPK(wrt) == In(wrt, pKis_wrt) \/ In(wrt, pKos_wrt)
\* the group of arguments the target belongs to; "" for a measurement
GroupOf(wrt) ==
    IF In(wrt, inputs_wrt) THEN ""
    ELSE IF In(wrt, totals_wrt) THEN "totals"
    ELSE IF In(wrt, Kis_wrt) \/ In(wrt, pKis_wrt) THEN "equilibria_in"
    ELSE "equilibria_out"
\* the name under which co2dict holds the baseline value of the target
BaseName(wrt) == IF IsPK(wrt) THEN SubSeq(wrt, 2, Len(wrt)) ELSE wrt
\* the key of the target in the mapping of its group
KeyOf(wrt) ==
    IF GroupOf(wrt) = "equilibria_in" THEN Remove(BaseName(wrt), "input")
    ELSE IF GroupOf(wrt) = "equilibria_out" THEN Remove(BaseName(wrt), "output")
    ELSE wrt
\* the name in co2dict of the key of a group
NameOf(group, key) ==
    IF group = "totals" \/ key = "RGas" THEN key
    ELSE IF group = "equilibria_in" THEN key \o "input"
    ELSE key \o "output"
CallerSupplied(group) ==
    IF group = "totals" THEN totals
    ELSE IF group = "equilibria_in" THEN equilibria_in
    ELSE equilibria_out

\* the baseline value of the target moved by step: in the cologarithm for a
\* pK target, in the value itself otherwise
MovedValue(wrt, step) ==
    LET v == co2dict[BaseName(wrt)]
    IN  IF IsPK(wrt) THEN TenToMinus(ArrAddScalar(NegLog10(v), step))
        ELSE ArrAddScalar(v, step)
BaselineArguments == [arg \in Elems(co2args_names) |-> co2dict[arg]]
BaselineOverrides ==
    [KSO4CONSTANTS |-> co2dict["KSO4CONSTANTS"],
     totals |-> totals,
     equilibria_in |-> equilibria_in,
     equilibria_out |-> equilibria_out]
\* the arguments of the baseline with the target alone moved by step
MovedArguments(wrt, step) ==
    IF GroupOf(wrt) = ""
    THEN [BaselineArguments EXCEPT ![wrt] = MovedValue(wrt, step)]
    ELSE BaselineArguments
MovedOverrides(wrt, step) ==
    IF GroupOf(wrt) = "" THEN BaselineOverrides
    ELSE [BaselineOverrides EXCEPT ![GroupOf(wrt)] =
            Dict(Update(IF @.isNone THEN <<>> ELSE @.d, KeyOf(wrt),
                        MovedValue(wrt, step)))]
\* (perturbed_result[of] - baseline[of]) / step
ForwardDifference(of, wrt, step) ==
    LET perturbed == Result(MovedArguments(wrt, step),
                            MovedOverrides(wrt, step), of)
    IN  [i \in Samples |-> RDiv(RSub(perturbed[i], co2dict[of][i]), step)]
\* the coefficient of the target in the stub's result; SAL and the pK
\* targets are the ones the stub is not linear in
LinearIn(wrt) == wrt # "SAL" /\ ~IsPK(wrt)
CoefficientOf(of, wrt) ==
    LET t == [group |-> GroupOf(wrt), name |-> KeyOf(wrt)]
    IN  Coef[of][Pos(StubTerms, t)]

\* C2: in what a successful call of forward returns, the derivative of each
\* requested output with respect to each requested target is the solver's
\* result for the baseline arguments with that target alone moved by
\* dxs[wrt], less the baseline result, over dxs[wrt]; with dx_scaling "none"
\* and a target the stub is linear in, it is the stub's coefficient.
C2_DerivativeIsForwardDifference ==
    pc = "returned" /\ op = "forward"
    => \A of \in DOMAIN co2derivs : \A wrt \in DOMAIN co2derivs[of] :
         /\ ~dxs[wrt].isNone
         /\ ~co2derivs[of][wrt].isNone
         /\ co2derivs[of][wrt].v = ForwardDifference(of, wrt, dxs[wrt].v)
         /\ dx_scaling = "none" /\ LinearIn(wrt)
            => co2derivs[of][wrt].v = Full(RInt(CoefficientOf(of, wrt)))

\* C3: every invocation of the solver made for a pK target, at input or at
\* output conditions, has the constant of the target overridden by
\* 10^(-(-log10(v) + step)), v being its baseline value and step the step the
\* policy gives for the cologarithms of v, and the step recorded for the
\* target in a successful call is that step.
C3_PKTargetsMoveInCologarithm ==
    \A k \in DOMAIN calls :
        LET wrt == calls[k].wrt
            group == calls[k].kwargs[GroupOf(wrt)]
            pK == NegLog10(co2dict[BaseName(wrt)])
            step == get_dx_wrt(RInt(dx), pK, dx_scaling).v
        IN  IsPK(wrt)
            => /\ ~group.isNone
               /\ KeyOf(wrt) \in DOMAIN group.d
               /\ group.d[KeyOf(wrt)] = TenToMinus(ArrAddScalar(pK, step))
               /\ pc = "returned" => dxs[wrt] = Value(step)

\* C4: in every invocation of the solver, every key of totals, equilibria_in
\* and equilibria_out but the key of the target of the pass is a key the
\* caller supplied and holds the baseline value, no key the caller supplied
\* is missing, and every measurement but the target holds its baseline
\* value.
C4_OnlyTheTargetIsMoved ==
    \A k \in DOMAIN calls :
        LET wrt == calls[k].wrt
            IsTarget(group, key) == group = GroupOf(wrt) /\ key = KeyOf(wrt)
        IN  /\ \A arg \in Elems(co2args_names) :
                 arg # wrt => calls[k].args[arg] = co2dict[arg]
            /\ \A group \in Groups :
                 LET passed == calls[k].kwargs[group]
                     given == CallerSupplied(group)
                 IN  /\ ~passed.isNone =>
                          \A key \in DOMAIN passed.d :
                             ~IsTarget(group, key)
                             => /\ ~given.isNone
                                /\ key \in DOMAIN given.d
                                /\ passed.d[key] = co2dict[NameOf(group, key)]
                     /\ ~given.isNone =>
                          /\ ~passed.isNone
                          /\ DOMAIN given.d \subseteq DOMAIN passed.d

\* a pass for TF after a pass for TB, where the caller supplied TB
C4_Witness ==
    /\ Len(calls) >= 2
    /\ calls[1].wrt = "TB"
    /\ calls[2].wrt = "TF"
    /\ ~totals.isNone
    /\ "TB" \in DOMAIN totals.d
    /\ calls[1].kwargs.totals.d["TB"] # co2dict["TB"]
    /\ calls[2].kwargs.totals.d["TB"] = co2dict["TB"]

\* C5: a successful call of forward has invoked the solver once for each
\* target requested, and as many times in all as there are distinct targets
\* requested, a group keyword counting for the names it stands for.
C5_OneInvocationPerTarget ==
    pc = "returned" /\ op = "forward"
    => /\ \A wrt \in Elems(wrtList) :
            Cardinality({k \in DOMAIN calls : calls[k].wrt = wrt}) = 1
       /\ Len(calls) = Cardinality(Elems(wrtList))

\* a call of propagate has returned components and uncertainties
Propagated == pc = "returned" /\ op = "propagate"
Magnitude(from) == engine_condition(magnitudes[from])

\* C6: in what propagate returns, the component of each output from each
\* source is the absolute value of the derivative forward returned for the
\* pair, times the magnitude of the source (a 1-sigma value, not negative);
\* with one source alone, the uncertainty of the output is that component.
C6_ComponentIsDerivativeTimesMagnitude ==
    Propagated
    => /\ ~grads_of.isstr => DOMAIN components = Elems(grads_of.l)
       /\ \A into \in DOMAIN components :
            /\ DOMAIN components[into] = DOMAIN magnitudes
            /\ \A from \in DOMAIN magnitudes : \A i \in Samples :
                 /\ components[into][from][i]
                      = RMul(RAbs(co2derivs[into][from].v[i]), Magnitude(from)[i])
                 /\ Cardinality(DOMAIN magnitudes) = 1
                    => SqrtEquals(uncertainties[into][i], components[into][from][i])

\* one source, of which the derivative is negative
C6_Witness ==
    /\ Propagated
    /\ wrtList = <<"pK1input">>
    /\ RLt(co2derivs["CO2out"]["pK1input"].v[1], <<0, 1>>)
    /\ RLt(<<0, 1>>, components["CO2out"]["pK1input"][1])
    /\ SqrtEquals(uncertainties["CO2out"][1], components["CO2out"]["pK1input"][1])

SumOfSquares(into, i) ==
    LET T(k) == RMul(components[into][wrtList[k]][i],
                     components[into][wrtList[k]][i])
    IN  SumTo(T, Len(wrtList))

\* C7: in what propagate returns, the uncertainty of each output is the
\* square root of the sum over the sources of the squares of its components;
\* with two sources of components 3 and 4 it is 5.
C7_UncertaintyIsRootSumOfSquares ==
    Propagated
    => /\ DOMAIN uncertainties = DOMAIN components
       /\ \A into \in DOMAIN components : \A i \in Samples :
            /\ uncertainties[into][i] = np_sqrt(SumOfSquares(into, i))
            /\ /\ Len(wrtList) = 2
               /\ components[into][wrtList[1]][i] = RInt(3)
               /\ components[into][wrtList[2]][i] = RInt(4)
               => SqrtEquals(uncertainties[into][i], RInt(5))

\* two sources of components 3 and 4
C7_Witness ==
    /\ Propagated
    /\ wrtList = <<"PAR1", "TB">>
    /\ components["CO2out"]["PAR1"][1] = RInt(3)
    /\ components["CO2out"]["TB"][1] = RInt(4)
    /\ SqrtEquals(uncertainties["CO2out"][1], RInt(5))

\* C8: in what propagate returns, the uncertainty of each output is not
\* less than any of its components.
C8_UncertaintyNotLessThanComponent ==
    Propagated
    => \A into \in DOMAIN components : \A from \in DOMAIN components[into] :
         \A i \in Samples :
            SqrtAtLeast(uncertainties[into][i], components[into][from][i])

\* two sources, the components of both above zero, and the uncertainty above
\* the larger of them
C8_Witness ==
    /\ Propagated
    /\ Len(wrtList) = 2
    /\ \E i \in Samples :
         LET a == components["OmegaARin"][wrtList[1]][i]
             b == components["OmegaARin"][wrtList[2]][i]
         IN  /\ RLt(<<0, 1>>, a)
             /\ RLt(a, b)
             /\ RLt(RMul(b, b), uncertainties["OmegaARin"][i].sq)

\* C10: a call of forward with a dx_scaling that is none of "none", "median"
\* and "custom", with valid names requested and dx > 0, returns no table of
\* derivatives, and where it fails other than by the solver it fails on the
\* assertion on dx_scaling.
C10_UnknownScalingFails ==
    /\ ~ValidScaling
    /\ NormaliseWrt(grads_wrt).ok
    /\ NormaliseOf(grads_of).ok
    /\ dx > 0
    => /\ pc # "returned"
       /\ pc = "failed" /\ err # SolverError
          => err = AssertionError("dx_scaling must be 'none' or 'median'.")

\* the values the step of a target is sized on: the baseline values of the
\* target, in the cologarithm for a pK target
PolicyValues(wrt) ==
    IF IsPK(wrt) THEN NegLog10(co2dict[BaseName(wrt)])
    ELSE co2dict[BaseName(wrt)]
Returned == pc = "returned" /\ op = "forward"

\* C11: in a successful call of forward with dx_scaling "median" and dx > 0,
\* the step recorded for every target is dx times the absolute value of the
\* median of the target's baseline values where that median is not zero, and
\* dx where it is zero; no step is zero and every derivative is finite.
C11_MedianStep ==
    Returned /\ dx_scaling = "median" /\ dx > 0
    => \A wrt \in DOMAIN dxs :
         LET m == Median(PolicyValues(wrt))
         IN  /\ dxs[wrt] = Value(IF RIsZero(m) THEN RInt(dx)
                                 ELSE RMul(RInt(dx), RAbs(m)))
             /\ ~RIsZero(dxs[wrt].v)
             /\ \A of \in DOMAIN co2derivs : \A i \in Samples :
                  RFinite(co2derivs[of][wrt].v[i])

\* C12: in a successful call of forward with dx_scaling "custom", the step
\* recorded for every target is dx_func of the target's baseline values (of
\* their cologarithms for a pK target).
C12_CustomStep ==
    Returned /\ dx_scaling = "custom"
    => \A wrt \in DOMAIN dxs : dxs[wrt] = Value(dx_func(PolicyValues(wrt)))

\* C13: where dx <= 0, _get_dx_wrt fails on every path that reaches it, that
\* of forward_nd included: no call with dx <= 0 ever holds a step that
\* _get_dx_wrt returned, nor has invoked the solver with arguments moved by
\* one.
C13_PolicyRejectsNonPositiveDx ==
    dx <= 0
    => /\ \A wrt \in DOMAIN dxs : dxs[wrt].isNone
       /\ NoInvocation

Ended == pc \in {"failed", "returned"}

\* C14: a second call of forward with the arguments of the first ends as the
\* first did, and where it returns, it returns the table of derivatives and
\* the table of steps the first returned.
C14_SecondCallReturnsTheSame ==
    Ended /\ ~first.isNone /\ ~first.v.permuted
    => /\ pc = first.v.pc
       /\ err = first.v.err
       /\ pc = "returned" =>
            /\ co2derivs = first.v.co2derivs
            /\ dxs = first.v.dxs

\* the second of two calls for the totals has returned, the caller having
\* supplied a total that both calls had to move
C14_Witness ==
    /\ pc = "returned"
    /\ ~first.isNone
    /\ ~first.v.permuted
    /\ first.v.pc = "returned"
    /\ grads_wrt = Str("totals")
    /\ ~totals.isNone
    /\ "TB" \in DOMAIN totals.d
    /\ ~co2derivs["CO2out"]["TB"].isNone

\* C18: a call of forward with the list grads_wrt in another order ends as
\* the call with the list in the first order did, in success or in failure,
\* and where it returns, the derivative and the step of every target are
\* those the first call returned.
C18_OrderOfTargetsDoesNotMatter ==
    Ended /\ ~first.isNone /\ first.v.permuted
    => /\ pc = first.v.pc
       /\ pc = "returned" =>
            /\ co2derivs = first.v.co2derivs
            /\ dxs = first.v.dxs

\* C15: where the solver raises in a pass of forward, the call ends there
\* with the solver's exception: the invocation that raised is the last one,
\* made for the target the loop stands at, and nothing is returned.  An
\* invocation of which no step was recorded is the last of a call that
\* failed.
C15_SolverFailureEndsTheCall ==
    /\ err = SolverError
       => /\ pc = "failed"
          /\ Len(calls) = idx
          /\ calls[idx].wrt = wrtList[idx]
          /\ dxs[wrtList[idx]].isNone \/ \E k \in 1 .. idx - 1 : wrtList[k] = wrtList[idx]
    /\ \A k \in DOMAIN calls :
          dxs[calls[k].wrt].isNone => pc = "failed" /\ k = Len(calls)

\* the solver raised for the second target, the first having been processed
C15_Witness ==
    /\ pc = "failed"
    /\ err = SolverError
    /\ idx = 2
    /\ wrtList = <<"PAR1", "TB">>
    /\ Len(calls) = 2
    /\ ~co2derivs["CO2out"]["PAR1"].isNone
    /\ co2derivs["CO2out"]["TB"].isNone

\* C16: a call of propagate with the output of interest given as a single
\* name, a gradable result or the keyword "all", and nothing else wrong with
\* the call, does not end in a KeyError, and where it returns, its
\* uncertainties and components are keyed by the names the string stands
\* for.
C16_PropagateTakesASingleName ==
    op = "propagate" /\ grads_of.isstr /\ NormaliseOf(grads_of).ok
    => /\ pc = "failed" => err # KeyError
       /\ pc = "returned" =>
            /\ DOMAIN uncertainties = Elems(NormaliseOf(grads_of).l)
            /\ DOMAIN components = Elems(NormaliseOf(grads_of).l)

\* v moved by step, in the cologarithm for a pK target
Moved(wrt, v, step) ==
    IF IsPK(wrt) THEN TenToMinus(ArrAddScalar(NegLog10(v), step))
    ELSE ArrAddScalar(v, step)

\* C17: the dict _overridekwargs returns holds, under the bare key of the
\* target, the value the caller supplied under that key moved by the step,
\* or the baseline value moved by the step where the caller supplied no
\* mapping for the group or none with that key; every other key the caller
\* supplied is there with the caller's value, and the other groups are as
\* the caller supplied them.
C17_OverrideKeepsTheCallersEntry ==
    op = "_overridekwargs" /\ pc = "returned"
    => LET wrt == grads_wrt.s
           group == kwarg_of(wrt)
           key == KeyOf(wrt)
           given == CallerSupplied(group)
           supplied == ~given.isNone /\ key \in DOMAIN given.d
           from == IF supplied THEN given.d[key] ELSE co2dict[BaseName(wrt)]
       IN  /\ ~co2kwargs[group].isNone
           /\ co2kwargs[group].d[key] = Moved(wrt, from, dx_wrt.v)
           /\ DOMAIN co2kwargs[group].d
                = {key} \cup (IF given.isNone THEN {} ELSE DOMAIN given.d)
           /\ \A k \in DOMAIN co2kwargs[group].d \ {key} :
                co2kwargs[group].d[k] = given.d[k]
           /\ \A g \in Groups \ {group} : co2kwargs[g] = CallerSupplied(g)

\* C19: no step of forward or of propagate, in a call that succeeds or in one
\* that fails, changes co2dict or the mappings totals, equilibria_in and
\* equilibria_out the caller supplied.
C19_CallersDataUnchanged ==
    [][/\ co2dict' = co2dict
       /\ totals' = totals
       /\ equilibria_in' = equilibria_in
       /\ equilibria_out' = equilibria_out]_vars

\* propagate has returned after a pass that moved TB, which the caller
\* supplied, and after a pass that moved K1 at input conditions, which the
\* caller supplied too
C19_Witness ==
    /\ Propagated
    /\ wrtList = <<"TB", "pK1input">>
    /\ ~totals.isNone
    /\ ~equilibria_in.isNone
    /\ "K1" \in DOMAIN equilibria_in.d
    /\ calls[1].kwargs.totals.d["TB"] # totals.d["TB"]
    /\ calls[2].kwargs.equilibria_in.d["K1"] # equilibria_in.d["K1"]

\* C20: an entry of co2derivs, once it holds a derivative, holds that
\* derivative to the end of the call: a later pass for the same target does
\* not overwrite what the first pass for it computed.
C20_FirstDerivativeIsKept ==
    [][\A of \in DOMAIN co2derivs : \A wrt \in DOMAIN co2derivs[of] :
          ~co2derivs[of][wrt].isNone
          => co2derivs'[of][wrt] = co2derivs[of][wrt]]_vars

\* PAR1 is requested twice and the solver's results moved between the two
\* passes; the derivative returned is that of the first pass
C20_Witness ==
    /\ Returned
    /\ wrtList = <<"PAR1", "PAR1">>
    /\ dx_scaling = "none"
    /\ calls[1].drift = 0
    /\ calls[2].drift = 1
    /\ co2derivs["CO2out"]["PAR1"] = Value(Full(RInt(CoefficientOf("CO2out", "PAR1"))))

\* the names of grads_wrt that forward_nd cannot perturb: the name, without
\* its "p" of a pK and its "_both", is no entry of CO2SYS_nd_results, or it
\* ends in "_both" and there is no entry at output conditions
nd_Unavailable(wrt) ==
    LET unprefixed == IF StartsWith(wrt, "pk_") THEN SubSeq(wrt, 2, Len(wrt))
                      ELSE wrt
        internal == IF EndsWith(wrt, "_both")
                    THEN SubSeq(unprefixed, 1, Len(unprefixed) - 5)
                    ELSE unprefixed
    IN  \/ internal \notin DOMAIN co2dict
        \/ EndsWith(wrt, "_both") /\ (internal \o "_out") \notin DOMAIN co2dict

\* C21: a call of forward_nd whose grads_wrt holds a name that is not
\* available for perturbation, at any position of the list, never invokes
\* engine.nd.CO2SYS, and where it has failed on that name it has failed with
\* no invocation made.
C21_NdRejectsBeforeAnyInvocation ==
    op = "forward_nd"
    /\ (\E k \in DOMAIN grads_wrt.l : nd_Unavailable(grads_wrt.l[k]))
    => NoInvocation

====
